---- MODULE Spec2Model ----
(***************************************************************************)
(* Model of src/translations/recordTranslator.js: the RecordTranslator      *)
(* (physical <-> visual coordinate translation through one row and one      *)
(* column IndexMapper, each result piped through a host hook) and the       *)
(* translator registry (registerIdentity / getTranslator / getIdentity).    *)
(*                                                                         *)
(* IndexMapper (./indexMapper), Core.runHooks (./../core) and isObject     *)
(* (./../helpers/object) are imported by the file but their code is not     *)
(* part of it; they are modelled from the specification's sections 3, 4.1   *)
(* and 6.                                                                   *)
(***************************************************************************)
EXTENDS Integers, Sequences, FiniteSets, TLC

\* ------------------------------------------------------------------ bounds
\* Largest number of physical rows / columns an axis holds.
MaxRows == 5
MaxCols == 2
\* Longest skipped list passed to setSkippedRows / setSkippedColumns.
MaxSkip == 2

\* ------------------------------------------------------------- the objects
\* Core instances (hosts) and plain objects used as identities.
Hosts == {"h1", "h2"}
Keys == {"k1", "k2"}
\* Everything that can be a WeakMap key.
Objects == Keys \cup Hosts
NoHost == "none"
HookNames == {"unmodifyRow", "unmodifyCol", "modifyRow", "modifyCol"}

\* The unmapped sentinel (spec section 3: "conventionally -1 or undefined").
Unmapped == -1

VARIABLES
    identities,            \* WeakMap identity -> hot          (line 159)
    translatorSingletons,  \* WeakMap hot -> RecordTranslator  (line 160)
    translators,           \* the RecordTranslator objects created so far
    hooks,                 \* per host: what each named hook adds to its argument
    last,                  \* the call made last, its return value and hook calls
    latest,                \* history: per translator and axis, the list passed last
    failed                 \* history: identities whose getTranslator has thrown

vars == <<identities, translatorSingletons, translators, hooks, last, latest, failed>>

\* ------------------------------------------------------------ the values
\* A number, a coordinates object {row, column}, and undefined.
Num(n) == [kind |-> "number", value |-> n]
Coords(r, c) == [kind |-> "object", row |-> r, column |-> c]
Undefined == [kind |-> "undefined"]

\* A call as made: the method, the translator it was made on (0: none), the
\* arguments, the return value, the hook calls it made and whether it threw.
\* released: the indexes a set call drops from the skipped list it replaces;
\* before: the translator as it was when a method was called on it, less the
\* mapper a set call replaces.
Call(op, t, args, ret, calls, threw) ==
    [op |-> op, t |-> t, args |-> args, ret |-> ret, calls |-> calls, threw |-> threw,
     released |-> {}, before |-> Undefined]

\* ------------------------------------------------------------ sequences
Range(s) == {s[i] : i \in 1..Len(s)}

Simple(n) == [i \in 1..n |-> i - 1]
Reversed(n) == [i \in 1..n |-> n - i]

\* Strictly ascending lists of at most k indexes out of 0..n-1.
AscLists(n, k) ==
    {s \in UNION {[1..l -> 0..(n - 1)] : l \in 0..k} :
        \A i, j \in 1..Len(s) : i < j => s[i] < s[j]}

\* ------------------------------------------------- IndexMapper (one axis)
\* new IndexMapper(): no indexes, nothing skipped.
IndexMapper == [indexOrder |-> <<>>, skipped |-> <<>>, visualOrder |-> <<>>]

\* indexOrder without the indexes of the skipped list, order kept.
NotSkipped(indexOrder, skipped) ==
    SelectSeq(indexOrder, LAMBDA p : p \notin Range(skipped))

getVisualIndex(m, physicalIndex) ==
    IF \E i \in 1..Len(m.visualOrder) : m.visualOrder[i] = physicalIndex
    THEN (CHOOSE i \in 1..Len(m.visualOrder) : m.visualOrder[i] = physicalIndex) - 1
    ELSE Unmapped

getPhysicalIndex(m, visualIndex) ==
    IF visualIndex >= 0 /\ visualIndex < Len(m.visualOrder)
    THEN m.visualOrder[visualIndex + 1]
    ELSE Unmapped

getSkippedIndexes(m) == m.skipped

isSkipped(m, physicalIndex) == physicalIndex \in Range(m.skipped)

setSkippedIndexes(m, indexes) ==
    [m EXCEPT !.skipped = indexes,
              !.visualOrder = NotSkipped(m.indexOrder, indexes)]

\* The host supplies the axis's index order as its data set changes.
setIndexOrder(m, order) ==
    [m EXCEPT !.indexOrder = order,
              !.visualOrder = NotSkipped(order, m.skipped)]

\* ------------------------------------------------------------ host, helpers
\* hot.runHooks(key, p1): the hook's return value, and the call as made.
runHooks(hot, key, p1) ==
    [value |-> p1 + hooks[hot][key],
     calls |-> <<[hot |-> hot, key |-> key, arg |-> p1]>>]

isObject(x) == x.kind = "object"

\* ------------------------------------------------------- RecordTranslator
RecordTranslator(hot) ==
    [hot |-> hot, rowIndexMapper |-> IndexMapper, columnIndexMapper |-> IndexMapper]

\* Variant: the row is handed to the hook as it came, no mapper consulted.
toVisualRow_rawIndex(tr, row) ==
    runHooks(tr.hot, "unmodifyRow", row)

toVisualRow(tr, row) ==
    runHooks(tr.hot, "unmodifyRow", getVisualIndex(tr.rowIndexMapper, row))

\* Variant: the column is looked up in the row mapper.
toVisualColumn_rowMapper(tr, column) ==
    runHooks(tr.hot, "unmodifyCol", getVisualIndex(tr.rowIndexMapper, column))

toVisualColumn(tr, column) ==
    runHooks(tr.hot, "unmodifyCol", getVisualIndex(tr.columnIndexMapper, column))

\* Variant: the object form reads its two keys the wrong way round.
toVisual_swapped(tr, row, column) ==
    IF isObject(row)
    THEN LET r == toVisualRow(tr, row.column)
             c == toVisualColumn(tr, row.row)
         IN [value |-> [kind |-> "object", row |-> r.value, column |-> c.value],
             calls |-> r.calls \o c.calls]
    ELSE LET r == toVisualRow(tr, row.value)
             c == toVisualColumn(tr, column.value)
         IN [value |-> [kind |-> "array", items |-> <<r.value, c.value>>],
             calls |-> r.calls \o c.calls]

toVisual(tr, row, column) ==
    IF isObject(row)
    THEN LET r == toVisualRow(tr, row.row)
             c == toVisualColumn(tr, row.column)
         IN [value |-> [kind |-> "object", row |-> r.value, column |-> c.value],
             calls |-> r.calls \o c.calls]
    ELSE LET r == toVisualRow(tr, row.value)
             c == toVisualColumn(tr, column.value)
         IN [value |-> [kind |-> "array", items |-> <<r.value, c.value>>],
             calls |-> r.calls \o c.calls]

\* Variant: the row is looked up in the column mapper.
toPhysicalRow_columnMapper(tr, row) ==
    runHooks(tr.hot, "modifyRow", getPhysicalIndex(tr.columnIndexMapper, row))

\* Variant: the row is handed to the hook as it came, no mapper consulted.
toPhysicalRow_rawIndex(tr, row) ==
    runHooks(tr.hot, "modifyRow", row)

toPhysicalRow(tr, row) ==
    runHooks(tr.hot, "modifyRow", getPhysicalIndex(tr.rowIndexMapper, row))

\* Variant: the column result goes through the row hook.
toPhysicalColumn_rowHook(tr, column) ==
    runHooks(tr.hot, "modifyRow", getPhysicalIndex(tr.columnIndexMapper, column))

toPhysicalColumn(tr, column) ==
    runHooks(tr.hot, "modifyCol", getPhysicalIndex(tr.columnIndexMapper, column))

toPhysical(tr, row, column) ==
    IF isObject(row)
    THEN LET r == toPhysicalRow(tr, row.row)
             c == toPhysicalColumn(tr, row.column)
         IN [value |-> [kind |-> "object", row |-> r.value, column |-> c.value],
             calls |-> r.calls \o c.calls]
    ELSE LET r == toPhysicalRow(tr, row.value)
             c == toPhysicalColumn(tr, column.value)
         IN [value |-> [kind |-> "array", items |-> <<r.value, c.value>>],
             calls |-> r.calls \o c.calls]

getSkippedRows(tr) == getSkippedIndexes(tr.rowIndexMapper)

getSkippedColumns(tr) == getSkippedIndexes(tr.columnIndexMapper)

isSkippedRow(tr, row) == isSkipped(tr.rowIndexMapper, row)

isSkippedColumn(tr, column) == isSkipped(tr.columnIndexMapper, column)

\* Variant: the list is given to both mappers.
setSkippedRows_bothMappers(tr, indexes) ==
    [tr EXCEPT !.rowIndexMapper = setSkippedIndexes(@, indexes),
               !.columnIndexMapper = setSkippedIndexes(@, indexes)]

setSkippedRows(tr, indexes) ==
    [tr EXCEPT !.rowIndexMapper = setSkippedIndexes(@, indexes)]

\* Variant: the list is given to the row mapper.
setSkippedColumns_rowMapper(tr, indexes) ==
    [tr EXCEPT !.rowIndexMapper = setSkippedIndexes(@, indexes)]

setSkippedColumns(tr, indexes) ==
    [tr EXCEPT !.columnIndexMapper = setSkippedIndexes(@, indexes)]

\* ------------------------------------------------------------- registry
\* Variant: any object passes the instance test.
InstanceOfCore_anyObject(identity) == identity \in Objects

\* identity instanceof Core
InstanceOfCore(identity) == identity \in Hosts

\* getIdentity: throws when the identity was never registered.
getIdentity(identity) ==
    IF identities[identity] = NoHost
    THEN [value |-> NoHost, threw |-> TRUE]
    ELSE [value |-> identities[identity], threw |-> FALSE]

\* The instance getTranslator resolves an identity to (line 179).
ResolveInstance(identity) ==
    IF InstanceOfCore(identity)
    THEN [value |-> identity, threw |-> FALSE]
    ELSE getIdentity(identity)

\* ---------------------------------------------------------------- calls
NoLatest == [rows |-> <<>>, columns |-> <<>>]

RegisterIdentity(identity, hot) ==
    /\ identities' = [identities EXCEPT ![identity] = hot]
    /\ last' = Call("registerIdentity", 0, <<identity, hot>>, Undefined, <<>>, FALSE)
    /\ UNCHANGED <<translatorSingletons, translators, hooks, latest, failed>>

\* Variant: the new translator is stored under the identity, not the instance.
GetTranslator_keyedByIdentity(identity) ==
    LET instance == ResolveInstance(identity) IN
    IF instance.threw
    THEN /\ last' = Call("getTranslator", 0, <<identity>>, Undefined, <<>>, TRUE)
         /\ failed' = failed \cup {identity}
         /\ UNCHANGED <<identities, translatorSingletons, translators, hooks, latest>>
    ELSE IF translatorSingletons[instance.value] # 0
    THEN /\ last' = Call("getTranslator", 0, <<identity>>,
                         translatorSingletons[instance.value], <<>>, FALSE)
         /\ UNCHANGED <<identities, translatorSingletons, translators, hooks,
                        latest, failed>>
    ELSE /\ translators' = Append(translators, RecordTranslator(instance.value))
         /\ translatorSingletons' =
                [translatorSingletons EXCEPT ![identity] = Len(translators) + 1]
         /\ latest' = Append(latest, NoLatest)
         /\ last' = Call("getTranslator", 0, <<identity>>, Len(translators) + 1,
                         <<>>, FALSE)
         /\ UNCHANGED <<identities, hooks, failed>>

GetTranslator(identity) ==
    LET instance == ResolveInstance(identity) IN
    IF instance.threw
    THEN /\ last' = Call("getTranslator", 0, <<identity>>, Undefined, <<>>, TRUE)
         /\ failed' = failed \cup {identity}
         /\ UNCHANGED <<identities, translatorSingletons, translators, hooks, latest>>
    ELSE IF translatorSingletons[instance.value] # 0
    THEN /\ last' = Call("getTranslator", 0, <<identity>>,
                         translatorSingletons[instance.value], <<>>, FALSE)
         /\ UNCHANGED <<identities, translatorSingletons, translators, hooks,
                        latest, failed>>
    ELSE /\ translators' = Append(translators, RecordTranslator(instance.value))
         /\ translatorSingletons' =
                [translatorSingletons EXCEPT ![instance.value] = Len(translators) + 1]
         /\ latest' = Append(latest, NoLatest)
         /\ last' = Call("getTranslator", 0, <<identity>>, Len(translators) + 1,
                         <<>>, FALSE)
         /\ UNCHANGED <<identities, hooks, failed>>

\* The host gives an axis its index order.
SetIndexOrder(t, axis, order) ==
    /\ translators' =
          [translators EXCEPT ![t] =
              IF axis = "rows"
              THEN [@ EXCEPT !.rowIndexMapper = setIndexOrder(@, order)]
              ELSE [@ EXCEPT !.columnIndexMapper = setIndexOrder(@, order)]]
    /\ last' = Call("setIndexOrder", t, <<axis, order>>, Undefined, <<>>, FALSE)
    /\ UNCHANGED <<identities, translatorSingletons, hooks, latest, failed>>

SetSkippedRows(t, indexes) ==
    /\ translators' = [translators EXCEPT ![t] = setSkippedRows(@, indexes)]
    /\ latest' = [latest EXCEPT ![t].rows = indexes]
    /\ last' = [Call("setSkippedRows", t, <<indexes>>, Undefined, <<>>, FALSE)
                  EXCEPT !.released = Range(latest[t].rows) \ Range(indexes),
                         !.before = [translators[t] EXCEPT !.rowIndexMapper = IndexMapper]]
    /\ UNCHANGED <<identities, translatorSingletons, hooks, failed>>

SetSkippedColumns(t, indexes) ==
    /\ translators' = [translators EXCEPT ![t] = setSkippedColumns(@, indexes)]
    /\ latest' = [latest EXCEPT ![t].columns = indexes]
    /\ last' = [Call("setSkippedColumns", t, <<indexes>>, Undefined, <<>>, FALSE)
                  EXCEPT !.released = Range(latest[t].columns) \ Range(indexes),
                         !.before = [translators[t] EXCEPT !.columnIndexMapper = IndexMapper]]
    /\ UNCHANGED <<identities, translatorSingletons, hooks, failed>>

\* A call that only reads: the translation and query methods.
Query(op, t, args, res) ==
    /\ last' = [Call(op, t, args, res.value, res.calls, FALSE)
                  EXCEPT !.before = translators[t]]
    /\ UNCHANGED <<identities, translatorSingletons, translators, hooks, latest, failed>>

Plain(v) == [value |-> v, calls |-> <<>>]

ToVisualRow(t, row) ==
    Query("toVisualRow", t, <<row>>, toVisualRow(translators[t], row))

ToVisualColumn(t, column) ==
    Query("toVisualColumn", t, <<column>>, toVisualColumn(translators[t], column))

ToPhysicalRow(t, row) ==
    Query("toPhysicalRow", t, <<row>>, toPhysicalRow(translators[t], row))

ToPhysicalColumn(t, column) ==
    Query("toPhysicalColumn", t, <<column>>, toPhysicalColumn(translators[t], column))

\* toVisual and toPhysical are called in either of their two shapes:
\* (row, column) or ({row, column}).
ToVisual(t, row, column) ==
    \/ Query("toVisual", t, <<Num(row), Num(column)>>,
             toVisual(translators[t], Num(row), Num(column)))
    \/ Query("toVisual", t, <<Coords(row, column), Undefined>>,
             toVisual(translators[t], Coords(row, column), Undefined))

ToPhysical(t, row, column) ==
    \/ Query("toPhysical", t, <<Num(row), Num(column)>>,
             toPhysical(translators[t], Num(row), Num(column)))
    \/ Query("toPhysical", t, <<Coords(row, column), Undefined>>,
             toPhysical(translators[t], Coords(row, column), Undefined))

GetSkippedRows(t) ==
    Query("getSkippedRows", t, <<>>, Plain(getSkippedRows(translators[t])))

GetSkippedColumns(t) ==
    Query("getSkippedColumns", t, <<>>, Plain(getSkippedColumns(translators[t])))

IsSkippedRow(t, row) ==
    Query("isSkippedRow", t, <<row>>, Plain(isSkippedRow(translators[t], row)))

IsSkippedColumn(t, column) ==
    Query("isSkippedColumn", t, <<column>>, Plain(isSkippedColumn(translators[t], column)))

\* ------------------------------------------------------------ input sets
\* Index orders the host supplies: none, the natural order, the reverse order.
RowOrders == {Simple(0), Simple(MaxRows), Reversed(MaxRows)}
ColOrders == {Simple(0), Simple(MaxCols), Reversed(MaxCols)}
RowSkips == AscLists(MaxRows, MaxSkip)
\* Columns: no column skipped, or one.
ColSkips == AscLists(MaxCols, 1)
\* Indexes asked about: every index of the axis, one below and one above.
RowArgs == (-1)..MaxRows
ColArgs == (-1)..MaxCols
\* Coordinates asked about in one call: inside the table and outside it.
PairRows == {2, MaxRows}
PairCols == {1}

NoHooks == [k \in HookNames |-> 0]
RowPlusTen == [k \in HookNames |-> IF k = "modifyRow" THEN 10 ELSE 0]
HookTables == {NoHooks, RowPlusTen}

\* ------------------------------------------------------- specifications
NoCall == Call("none", 0, <<>>, Undefined, <<>>, FALSE)

\* Module load: both WeakMaps empty, no translator yet.
Init ==
    /\ identities = [o \in Objects |-> NoHost]
    /\ translatorSingletons = [o \in Objects |-> 0]
    /\ translators = <<>>
    /\ hooks = [h \in Hosts |-> IF h = "h1" THEN RowPlusTen ELSE NoHooks]
    /\ last = NoCall
    /\ latest = <<>>
    /\ failed = {}

\* Inputs of the registry runs: two translators at most, short lists.
RegSkips == {<<>>, <<1>>}
RegArgs == {1}

Refs == 1..Len(translators)

Next ==
    \/ \E identity \in Objects, hot \in Hosts : RegisterIdentity(identity, hot)
    \/ \E identity \in Objects : GetTranslator(identity)
    \/ \E t \in Refs, indexes \in RegSkips : SetSkippedRows(t, indexes)
    \/ \E t \in Refs, indexes \in RegSkips : SetSkippedColumns(t, indexes)
    \/ \E t \in Refs, row \in RegArgs : ToVisualRow(t, row)
    \/ \E t \in Refs, column \in RegArgs : ToVisualColumn(t, column)
    \/ \E t \in Refs, row \in RegArgs : ToPhysicalRow(t, row)
    \/ \E t \in Refs, column \in RegArgs : ToPhysicalColumn(t, column)
    \/ \E t \in Refs, row \in RegArgs, column \in RegArgs : ToVisual(t, row, column)
    \/ \E t \in Refs, row \in RegArgs, column \in RegArgs : ToPhysical(t, row, column)
    \/ \E t \in Refs : GetSkippedRows(t)
    \/ \E t \in Refs : GetSkippedColumns(t)
    \/ \E t \in Refs, row \in RegArgs : IsSkippedRow(t, row)
    \/ \E t \in Refs, column \in RegArgs : IsSkippedColumn(t, column)

Spec == Init /\ [][Next]_vars

\* One host's translator, just created by getTranslator(h1); the host then
\* supplies index orders and callers translate.
InitAxis ==
    /\ identities = [o \in Objects |-> NoHost]
    /\ translatorSingletons = [o \in Objects |-> IF o = "h1" THEN 1 ELSE 0]
    /\ translators = <<RecordTranslator("h1")>>
    /\ hooks \in [Hosts -> HookTables]
    /\ hooks["h2"] = NoHooks
    /\ last = Call("getTranslator", 0, <<"h1">>, 1, <<>>, FALSE)
    /\ latest = <<NoLatest>>
    /\ failed = {}

NextAxis ==
    \/ \E order \in RowOrders : SetIndexOrder(1, "rows", order)
    \/ \E order \in ColOrders : SetIndexOrder(1, "columns", order)
    \/ \E indexes \in RowSkips : SetSkippedRows(1, indexes)
    \/ \E indexes \in ColSkips : SetSkippedColumns(1, indexes)
    \/ \E row \in RowArgs : ToVisualRow(1, row)
    \/ \E column \in ColArgs : ToVisualColumn(1, column)
    \/ \E row \in RowArgs : ToPhysicalRow(1, row)
    \/ \E column \in ColArgs : ToPhysicalColumn(1, column)
    \/ \E row \in PairRows, column \in PairCols : ToVisual(1, row, column)
    \/ \E row \in PairRows, column \in PairCols : ToPhysical(1, row, column)
    \/ GetSkippedRows(1)
    \/ GetSkippedColumns(1)
    \/ \E row \in RowArgs : IsSkippedRow(1, row)
    \/ \E column \in ColArgs : IsSkippedColumn(1, column)

SpecAxis == InitAxis /\ [][NextAxis]_vars

\* The same translator under coordinate-pair calls only: the host supplies
\* index orders and skip lists, callers translate pairs in both shapes.
NextPair ==
    \/ \E order \in RowOrders : SetIndexOrder(1, "rows", order)
    \/ \E order \in ColOrders : SetIndexOrder(1, "columns", order)
    \/ \E indexes \in RowSkips : SetSkippedRows(1, indexes)
    \/ \E indexes \in ColSkips : SetSkippedColumns(1, indexes)
    \/ \E row \in PairRows, column \in PairCols : ToVisual(1, row, column)
    \/ \E row \in PairRows, column \in PairCols : ToPhysical(1, row, column)

SpecPair == InitAxis /\ [][NextPair]_vars


\* ------------------------------------------------------ the properties
RowMapper(t) == translators[t].rowIndexMapper
ColMapper(t) == translators[t].columnIndexMapper
Hot(t) == translators[t].hot

\* The physical indexes of an axis that have a place in the visual order.
NonSkipped(m) == Range(m.indexOrder) \ Range(m.skipped)

\* The hook returns its argument unchanged.
IdentityHook(hot, key) == hooks[hot][key] = 0

HookCall(hot, key, arg) == [hot |-> hot, key |-> key, arg |-> arg]

\* The value a translation handed to its hook.
HookArg(res) == res.calls[1].arg

\* Rank of p among the non-skipped indexes of an axis, walked in index order:
\* its place in the index order less the skipped indexes before it.
Rank(indexOrder, skipped, p) ==
    IF p \in Range(skipped) \/ p \notin Range(indexOrder)
    THEN Unmapped
    ELSE LET i == CHOOSE k \in 1..Len(indexOrder) : indexOrder[k] = p
         IN (i - 1) - Cardinality({j \in 1..(i - 1) : indexOrder[j] \in Range(skipped)})

\* The non-skipped index of rank v, if there is one.
AtRank(indexOrder, skipped, v) ==
    LET at == {p \in Range(indexOrder) \ Range(skipped) : Rank(indexOrder, skipped, p) = v}
    IN IF at = {} THEN Unmapped ELSE CHOOSE p \in at : TRUE

\* C1: round trip. Every physical index that is in the index order and not
\* skipped comes back from getPhysicalIndex(getVisualIndex(p)); with hooks
\* that return their argument, toPhysicalRow(toVisualRow(p)) = p and
\* toPhysicalColumn(toVisualColumn(p)) = p.
C1_RoundTrip ==
    \A t \in Refs :
        LET tr == translators[t] IN
        /\ \A p \in NonSkipped(tr.rowIndexMapper) :
              /\ getPhysicalIndex(tr.rowIndexMapper,
                                  getVisualIndex(tr.rowIndexMapper, p)) = p
              /\ (IdentityHook(tr.hot, "unmodifyRow") /\ IdentityHook(tr.hot, "modifyRow"))
                    => toPhysicalRow(tr, toVisualRow(tr, p).value).value = p
        /\ \A p \in NonSkipped(tr.columnIndexMapper) :
              /\ getPhysicalIndex(tr.columnIndexMapper,
                                  getVisualIndex(tr.columnIndexMapper, p)) = p
              /\ (IdentityHook(tr.hot, "unmodifyCol") /\ IdentityHook(tr.hot, "modifyCol"))
                    => toPhysicalColumn(tr, toVisualColumn(tr, p).value).value = p

\* A row that moved (its visual index differs from its physical index) was
\* just translated back by toPhysicalRow, hooks returning their argument.
C1_Witness ==
    /\ last.op = "toPhysicalRow"
    /\ IdentityHook(Hot(last.t), "unmodifyRow")
    /\ IdentityHook(Hot(last.t), "modifyRow")
    /\ RowMapper(last.t).skipped # <<>>
    /\ last.ret \in NonSkipped(RowMapper(last.t))
    /\ last.args[1] = toVisualRow(translators[last.t], last.ret).value
    /\ last.args[1] # last.ret

\* C2: no stale translation. Whatever was set before, every result is the one
\* computed from the index order and the list passed to the latest set call.
C2_NoStale ==
    \A t \in Refs :
        LET tr == translators[t]
            rows == tr.rowIndexMapper.indexOrder
            cols == tr.columnIndexMapper.indexOrder
        IN
        /\ getSkippedRows(tr) = latest[t].rows
        /\ getSkippedColumns(tr) = latest[t].columns
        /\ \A p \in RowArgs :
              /\ isSkippedRow(tr, p) <=> p \in Range(latest[t].rows)
              /\ HookArg(toVisualRow(tr, p)) = Rank(rows, latest[t].rows, p)
              /\ HookArg(toPhysicalRow(tr, p)) = AtRank(rows, latest[t].rows, p)
        /\ \A p \in ColArgs :
              /\ isSkippedColumn(tr, p) <=> p \in Range(latest[t].columns)
              /\ HookArg(toVisualColumn(tr, p)) = Rank(cols, latest[t].columns, p)
              /\ HookArg(toPhysicalColumn(tr, p)) = AtRank(cols, latest[t].columns, p)

\* A set call has just dropped an index from the skipped list it replaced,
\* and that index has a visual index again.
C2_Witness ==
    /\ last.op = "setSkippedColumns"
    /\ last.args[1] # <<>>
    /\ \E p \in last.released :
          /\ p \in Range(ColMapper(last.t).indexOrder)
          /\ ~ isSkippedColumn(translators[last.t], p)
          /\ toVisualColumn(translators[last.t], p).value # Unmapped

\* C3: skip exclusion. A skipped index translates to the unmapped sentinel,
\* and a non-skipped index to its place in the index order less the number of
\* skipped indexes before it; with index order 0..4 and index 1 skipped, 1 is
\* unmapped, 3 is at visual index 2 and visual index 2 is physical index 3.
C3_SkipExclusion ==
    \A t \in Refs :
        LET tr == translators[t]
            rm == tr.rowIndexMapper
            cm == tr.columnIndexMapper
        IN
        /\ \A p \in Range(rm.skipped) :
              /\ getVisualIndex(rm, p) = Unmapped
              /\ HookArg(toVisualRow(tr, p)) = Unmapped
        /\ \A p \in Range(cm.skipped) :
              /\ getVisualIndex(cm, p) = Unmapped
              /\ HookArg(toVisualColumn(tr, p)) = Unmapped
        /\ \A p \in NonSkipped(rm) :
              HookArg(toVisualRow(tr, p)) = Rank(rm.indexOrder, rm.skipped, p)
        /\ \A p \in NonSkipped(cm) :
              HookArg(toVisualColumn(tr, p)) = Rank(cm.indexOrder, cm.skipped, p)
        /\ (rm.indexOrder = <<0, 1, 2, 3, 4>> /\ Range(rm.skipped) = {1})
              => /\ HookArg(toVisualRow(tr, 1)) = Unmapped
                 /\ HookArg(toVisualRow(tr, 3)) = 2
                 /\ HookArg(toPhysicalRow(tr, 2)) = 3

\* Rows 0..4 with row 1 skipped, and toVisualRow(3) has just returned 2.
C3_Witness ==
    /\ last.op = "toVisualRow"
    /\ last.args = <<3>>
    /\ RowMapper(last.t).indexOrder = <<0, 1, 2, 3, 4>>
    /\ RowMapper(last.t).skipped = <<1>>
    /\ isSkippedRow(translators[last.t], 1)
    /\ last.ret = 2

\* What one single-axis translation must have done: one call of the named
\* hook, given the mapper's raw result, whose return value is the result.
OneHook(key, raw) ==
    /\ last.calls = <<HookCall(Hot(last.t), key, raw)>>
    /\ last.ret = raw + hooks[Hot(last.t)][key]

\* C4: hook composition. toVisualRow runs unmodifyRow, toVisualColumn runs
\* unmodifyCol, toPhysicalRow runs modifyRow and toPhysicalColumn runs
\* modifyCol: once, on the mapper's raw result, returning what the hook
\* returns. With no skips and a modifyRow hook adding 10, toPhysical(2, 1)
\* returns [12, 1].
C4_HookComposition ==
    /\ last.op = "toVisualRow"
          => OneHook("unmodifyRow", getVisualIndex(RowMapper(last.t), last.args[1]))
    /\ last.op = "toVisualColumn"
          => OneHook("unmodifyCol", getVisualIndex(ColMapper(last.t), last.args[1]))
    /\ last.op = "toPhysicalRow"
          => OneHook("modifyRow", getPhysicalIndex(RowMapper(last.t), last.args[1]))
    /\ last.op = "toPhysicalColumn"
          => OneHook("modifyCol", getPhysicalIndex(ColMapper(last.t), last.args[1]))
    /\ (/\ last.op = "toPhysical"
        /\ last.args = <<Num(2), Num(1)>>
        /\ hooks[Hot(last.t)] = RowPlusTen
        /\ RowMapper(last.t) = setIndexOrder(IndexMapper, Simple(MaxRows))
        /\ ColMapper(last.t) = setIndexOrder(IndexMapper, Simple(MaxCols)))
          => last.ret = [kind |-> "array", items |-> <<12, 1>>]

\* toPhysical(2, 1) has just returned [12, 1] through the adding hook.
C4_Witness ==
    /\ last.op = "toPhysical"
    /\ last.args = <<Num(2), Num(1)>>
    /\ hooks[Hot(last.t)] = RowPlusTen
    /\ RowMapper(last.t).skipped = <<>>
    /\ ColMapper(last.t).skipped = <<>>
    /\ last.ret = [kind |-> "array", items |-> <<12, 1>>]
    /\ last.calls = <<HookCall(Hot(last.t), "modifyRow", 2),
                      HookCall(Hot(last.t), "modifyCol", 1)>>

\* C5: coordinate-shape equivalence. toVisual(r, c) is the pair [vr, vc] and
\* toVisual({row: r, column: c}) the object {row: vr, column: vc} of the same
\* two values; likewise toPhysical.
C5_ShapeEquivalence ==
    \A t \in Refs : \A r \in RowArgs : \A c \in ColArgs :
        LET tr == translators[t]
            va == toVisual(tr, Num(r), Num(c)).value
            vo == toVisual(tr, Coords(r, c), Undefined).value
            pa == toPhysical(tr, Num(r), Num(c)).value
            po == toPhysical(tr, Coords(r, c), Undefined).value
        IN
        /\ va.kind = "array" /\ Len(va.items) = 2
        /\ vo.kind = "object" /\ DOMAIN vo = {"kind", "row", "column"}
        /\ va.items[1] = vo.row /\ va.items[2] = vo.column
        /\ pa.kind = "array" /\ Len(pa.items) = 2
        /\ po.kind = "object" /\ DOMAIN po = {"kind", "row", "column"}
        /\ pa.items[1] = po.row /\ pa.items[2] = po.column

\* toVisual was just called with an object whose row and column translate to
\* different mapped values, and the two-argument call gives the same two.
C5_Witness ==
    /\ last.op = "toVisual"
    /\ isObject(last.args[1])
    /\ last.ret.kind = "object"
    /\ last.ret.row # Unmapped
    /\ last.ret.column # Unmapped
    /\ last.ret.row # last.ret.column
    /\ toVisual(translators[last.t], Num(last.args[1].row),
                Num(last.args[1].column)).value.items = <<last.ret.row, last.ret.column>>

\* The non-skipped indexes of an axis are counted once each.
CountNonSkipped(m) == Cardinality(NonSkipped(m))

\* The single-axis translations and the queries: the calls that only read.
ReadOps ==
    {"toVisualRow", "toVisualColumn", "toVisual", "toPhysicalRow", "toPhysicalColumn",
     "toPhysical", "getSkippedRows", "getSkippedColumns", "isSkippedRow",
     "isSkippedColumn"}

\* C6: unregistered identity. getTranslator raises for an identity that is no
\* host instance and was never registered; that call creates no translator
\* and leaves both maps as they were; once the identity is registered the
\* lookup returns the translator of the host it was registered to.
C6_Lookup ==
    last'.op = "getTranslator" =>
        LET identity == last'.args[1] IN
        IF ~ (identity \in Hosts) /\ identities[identity] = NoHost
        THEN /\ last'.threw
             /\ UNCHANGED <<identities, translatorSingletons, translators>>
        ELSE /\ ~ last'.threw
             /\ last'.ret \in 1..Len(translators')
             /\ translators'[last'.ret].hot =
                   (IF identity \in Hosts THEN identity ELSE identities[identity])

C6_Unregistered == [][C6_Lookup]_vars

\* A lookup that was refused earlier has succeeded after a registration.
C6_Witness ==
    /\ last.op = "getTranslator"
    /\ ~ last.threw
    /\ last.args[1] \in failed
    /\ last.args[1] \in Keys
    /\ translators[last.ret].hot = identities[last.args[1]]

\* The host a lookup resolves to.
ResolvedHost(identity) == IF identity \in Hosts THEN identity ELSE identities[identity]

\* C7, in every state: each translator is the singleton of its own host, so
\* no host has two and no two hosts share one; a lookup returns the singleton
\* of the host it resolves to; a skipped list set through one reference is
\* what any other reference to the translator reads.
C7_OnePerHost ==
    /\ \A t \in Refs : translators[t].hot \in Hosts /\ translatorSingletons[translators[t].hot] = t
    /\ \A o \in Objects :
          translatorSingletons[o] # 0 =>
              /\ o \in Hosts
              /\ translatorSingletons[o] \in Refs
              /\ translators[translatorSingletons[o]].hot = o
    /\ (last.op = "getTranslator" /\ ~ last.threw) =>
          /\ last.ret # 0
          /\ last.ret = translatorSingletons[ResolvedHost(last.args[1])]
    /\ last.op = "getSkippedRows" => last.ret = latest[last.t].rows
    /\ last.op = "getSkippedColumns" => last.ret = latest[last.t].columns

\* C7, in every step: a translator is created only by the first lookup that
\* resolves to its host, one at a time, and a host's singleton never changes.
C7_Created ==
    /\ \A o \in Objects :
          translatorSingletons[o] # 0 => translatorSingletons'[o] = translatorSingletons[o]
    /\ \A t \in Refs : t \in 1..Len(translators') /\ translators'[t].hot = translators[t].hot
    /\ Len(translators') # Len(translators) =>
          /\ Len(translators') = Len(translators) + 1
          /\ last'.op = "getTranslator"
          /\ ~ last'.threw
          /\ translatorSingletons[ResolvedHost(last'.args[1])] = 0
          /\ last'.ret = Len(translators')
    /\ (last'.op = "getTranslator" /\ ~ last'.threw
            /\ translatorSingletons[ResolvedHost(last'.args[1])] # 0) =>
          /\ last'.ret = translatorSingletons[ResolvedHost(last'.args[1])]
          /\ translators' = translators

\* C7: one translator per host.
C7_Singleton == [] C7_OnePerHost /\ [][C7_Created]_vars

\* Two identities registered to one host both give its translator, which
\* holds a skipped list set earlier, while the other host has its own.
C7_Witness ==
    /\ last.op = "getTranslator"
    /\ last.args = <<"k2">>
    /\ identities["k1"] = "h1"
    /\ identities["k2"] = "h1"
    /\ "k1" \in failed
    /\ last.ret = translatorSingletons["h1"]
    /\ translators[last.ret].rowIndexMapper.skipped = <<1>>
    /\ translatorSingletons["h2"] # 0
    /\ translatorSingletons["h2"] # last.ret
    /\ translators[translatorSingletons["h2"]].rowIndexMapper.skipped = <<>>

\* C8: an unmapped index is a value, not an error. A visual index outside
\* 0 .. count-1 and a physical index outside the index order translate to the unmapped sentinel, which the
\* translator hands to the hook, returning the hook's result; a single-axis
\* translation returns a value, raises nothing and leaves the translator as
\* it was.
C8_Unmapped ==
    /\ last.op \in {"toVisualRow", "toVisualColumn", "toPhysicalRow", "toPhysicalColumn"} =>
          /\ ~ last.threw
          /\ last.ret \in Int
          /\ translators[last.t] = last.before
    /\ \A t \in Refs :
           LET tr == translators[t]
               rm == tr.rowIndexMapper
               cm == tr.columnIndexMapper
           IN
           /\ \A v \in RowArgs \ (0..(CountNonSkipped(rm) - 1)) :
                 /\ getPhysicalIndex(rm, v) = Unmapped
                 /\ toPhysicalRow(tr, v) =
                       [value |-> Unmapped + hooks[tr.hot]["modifyRow"],
                        calls |-> <<HookCall(tr.hot, "modifyRow", Unmapped)>>]
           /\ \A v \in ColArgs \ (0..(CountNonSkipped(cm) - 1)) :
                 /\ getPhysicalIndex(cm, v) = Unmapped
                 /\ toPhysicalColumn(tr, v) =
                       [value |-> Unmapped + hooks[tr.hot]["modifyCol"],
                        calls |-> <<HookCall(tr.hot, "modifyCol", Unmapped)>>]
           /\ \A p \in RowArgs \ Range(rm.indexOrder) :
                 /\ getVisualIndex(rm, p) = Unmapped
                 /\ toVisualRow(tr, p) =
                       [value |-> Unmapped + hooks[tr.hot]["unmodifyRow"],
                        calls |-> <<HookCall(tr.hot, "unmodifyRow", Unmapped)>>]
           /\ \A p \in ColArgs \ Range(cm.indexOrder) :
                 /\ getVisualIndex(cm, p) = Unmapped
                 /\ toVisualColumn(tr, p) =
                       [value |-> Unmapped + hooks[tr.hot]["unmodifyCol"],
                        calls |-> <<HookCall(tr.hot, "unmodifyCol", Unmapped)>>]

\* toPhysicalRow was just asked for the first visual index past the end of a
\* non-empty visual order with a row skipped, and gave the hook the sentinel.
C8_Witness ==
    /\ last.op = "toPhysicalRow"
    /\ RowMapper(last.t).skipped # <<>>
    /\ CountNonSkipped(RowMapper(last.t)) > 0
    /\ last.args[1] = CountNonSkipped(RowMapper(last.t))
    /\ last.args[1] \in Range(RowMapper(last.t).indexOrder)
    /\ last.calls = <<HookCall(Hot(last.t), "modifyRow", Unmapped)>>
    /\ last.ret = Unmapped + hooks[Hot(last.t)]["modifyRow"]

\* C9: visual contiguity. The visual indexes of the non-skipped physical
\* indexes of an axis are pairwise distinct and are exactly 0 .. count-1.
C9_Contiguity ==
    \A t \in Refs :
        LET tr == translators[t]
            rm == tr.rowIndexMapper
            cm == tr.columnIndexMapper
        IN
        /\ {HookArg(toVisualRow(tr, p)) : p \in NonSkipped(rm)} = 0..(CountNonSkipped(rm) - 1)
        /\ \A p, q \in NonSkipped(rm) :
              p # q => HookArg(toVisualRow(tr, p)) # HookArg(toVisualRow(tr, q))
        /\ {HookArg(toVisualColumn(tr, p)) : p \in NonSkipped(cm)}
              = 0..(CountNonSkipped(cm) - 1)
        /\ \A p, q \in NonSkipped(cm) :
              p # q => HookArg(toVisualColumn(tr, p)) # HookArg(toVisualColumn(tr, q))

\* Rows in reverse order with two of them skipped, and toVisualRow has just
\* returned the last visual index for a row whose physical index differs.
C9_Witness ==
    /\ last.op = "toVisualRow"
    /\ RowMapper(last.t).indexOrder = Reversed(MaxRows)
    /\ Len(RowMapper(last.t).skipped) = 2
    /\ last.args[1] \in NonSkipped(RowMapper(last.t))
    /\ last.calls[1].arg = CountNonSkipped(RowMapper(last.t)) - 1
    /\ last.calls[1].arg # last.args[1]

\* C10: axis independence and read-only translation. setSkippedRows leaves
\* the column mapper and every column result as they were, setSkippedColumns
\* the row mapper and every row result; the translations and queries change
\* no translator.
C10_AxisIndependence ==
    /\ last.op = "setSkippedRows" =>
          LET a == last.before
              b == translators[last.t]
          IN
          /\ b.rowIndexMapper.skipped = last.args[1]
          /\ b.columnIndexMapper = a.columnIndexMapper
          /\ b.hot = a.hot
          /\ getSkippedColumns(b) = getSkippedColumns(a)
          /\ \A c \in ColArgs :
                /\ isSkippedColumn(b, c) = isSkippedColumn(a, c)
                /\ toVisualColumn(b, c) = toVisualColumn(a, c)
                /\ toPhysicalColumn(b, c) = toPhysicalColumn(a, c)
    /\ last.op = "setSkippedColumns" =>
          LET a == last.before
              b == translators[last.t]
          IN
          /\ b.columnIndexMapper.skipped = last.args[1]
          /\ b.rowIndexMapper = a.rowIndexMapper
          /\ b.hot = a.hot
          /\ getSkippedRows(b) = getSkippedRows(a)
          /\ \A r \in RowArgs :
                /\ isSkippedRow(b, r) = isSkippedRow(a, r)
                /\ toVisualRow(b, r) = toVisualRow(a, r)
                /\ toPhysicalRow(b, r) = toPhysicalRow(a, r)
    /\ last.op \in ReadOps => translators[last.t] = last.before

\* setSkippedRows has just changed the rows of a translator whose columns
\* hold an index order and a skipped column of their own.
C10_Witness ==
    /\ last.op = "setSkippedRows"
    /\ last.args[1] # <<>>
    /\ last.args[1] # ColMapper(last.t).skipped
    /\ RowMapper(last.t).indexOrder # <<>>
    /\ RowMapper(last.t).visualOrder # RowMapper(last.t).indexOrder
    /\ ColMapper(last.t).indexOrder # <<>>
    /\ ColMapper(last.t).skipped # <<>>

====
